---- MODULE Spec2Model ----
(***************************************************************************)
(* Streaming anomaly detector of anomaly-detection-system: the isolation   *)
(* forest (isolation_forest.rs), the buffering / retraining state machine  *)
(* around it (detector.rs) and the line parser of the feed (parser.rs).    *)
(*                                                                         *)
(* Numbers.  f64 quantities (path lengths, c(n), scores, thresholds) are   *)
(* fixed-point integers in units of 1/Scale.  A score is a record          *)
(* [kind, val]: kind "Num" with val the fixed-point value, kind "NaN" for  *)
(* the IEEE not-a-number, kind "Panic" when the call does not return.      *)
(* Feature values are integers on a grid; the split thresholds the random  *)
(* generator can draw from [min, max) are the grid points min .. max-1.    *)
(* Option<T> is a sequence: <<>> for None, <<x>> for Some(x).              *)
(***************************************************************************)
EXTENDS Integers, Sequences, FiniteSets

----------------------------------------------------------------------------
(* Bounds of the model.                                                    *)

MaxCalls == 5
MaxBufferSize == 2
MaxRetrainInterval == 2
MaxCallsE2E == 12
MaxData == 2
MaxSampleSize == 3
MaxChainSample == 4
MaxNorm == 256
MaxFields == 8
MaxDepth == 2
MaxTurns == 11
MaxOps == 6

----------------------------------------------------------------------------
(* f64 arithmetic, fixed point.                                            *)

Scale == 10000

\* ln 2 and the Euler-Mascheroni constant of c(n), in units of 1/Scale.
Ln2 == 6931
Gamma == 5772

FMul(a, b) == (a * b) \div Scale
FDiv(a, b) == (a * Scale) \div b

\* 2 * atanh(z) = 2 * (z + z^3/3 + z^5/5 + z^7/7 + z^9/9), 0 <= z <= 1/3.
TwoAtanh(z) ==
    LET z2 == FMul(z, z)
        z3 == FMul(z, z2)
        z5 == FMul(z3, z2)
        z7 == FMul(z5, z2)
        z9 == FMul(z7, z2)
    IN 2 * (z + z3 \div 3 + z5 \div 5 + z7 \div 7 + z9 \div 9)

\* ln(m) for a fixed-point m >= Scale (m >= 1.0): halve down to [1, 2), then
\* ln(m) = 2 * atanh((m - 1) / (m + 1)).
RECURSIVE LnFixed(_)
LnFixed(m) ==
    IF m >= 2 * Scale THEN Ln2 + LnFixed(m \div 2)
    ELSE TwoAtanh(FDiv(m - Scale, m + Scale))

\* f64::ln of a positive whole number n.
Ln(n) == LnFixed(n * Scale)

\* exp(-y) for a fixed-point 0 <= y < 1: the Taylor series to y^9/9!.
RECURSIVE ExpNegTerms(_, _, _)
ExpNegTerms(y, term, k) ==
    IF k > 9 \/ term = 0 THEN 0
    ELSE LET next == FMul(term, y) \div k
         IN (IF k % 2 = 1 THEN -next ELSE next) + ExpNegTerms(y, next, k + 1)

ExpNeg(y) == Scale + ExpNegTerms(y, Scale, 1)

RECURSIVE Halve(_, _)
Halve(v, k) == IF k = 0 \/ v = 0 THEN v ELSE Halve(v \div 2, k - 1)

\* 2.0_f64.powf(-x) for a fixed-point x >= 0: 2^-x = 2^-floor(x) * exp(-frac(x) ln 2).
Pow2Neg(x) == Halve(ExpNeg(FMul(x % Scale, Ln2)), x \div Scale)

----------------------------------------------------------------------------
(* isolation_forest.rs                                                     *)

Min(a, b) == IF a < b THEN a ELSE b
Max(a, b) == IF a > b THEN a ELSE b

\* f64::EPSILON on the integer grid of feature values: the values of the data
\* sets lie on even grid points, two values one grid point apart are distinct
\* and closer than EPSILON.
EPSILON == 2

\* C with a fault: the guard is n < 1, so c(1) is 2 * gamma.
CFromOne(n) ==
    IF n < 1 THEN 0
    ELSE 2 * (Ln(n) + Gamma) - FDiv(2 * (n - 1), n)

\* c(n): average path length of an unsuccessful search in a binary search
\* tree of n items; fixed point.
C(n) ==
    IF n <= 1 THEN 0
    ELSE 2 * (Ln(n) + Gamma) - FDiv(2 * (n - 1), n)

\* IsolationNode.
Leaf(size) == [leaf |-> TRUE, size |-> size]
Branch(feature, threshold, left, right) ==
    [leaf |-> FALSE, feature |-> feature, threshold |-> threshold,
     left |-> left, right |-> right]

\* Result of a traversal: a path length, or a panic of the index point[feature].
PathOk(len) == [panic |-> FALSE, len |-> len]
PathPanic == [panic |-> TRUE, len |-> 0]

\* PathLength with a fault: the leaf returns the depth alone, without c(size).
RECURSIVE PathLengthDepthOnly(_, _, _)
PathLengthDepthOnly(node, point, depth) ==
    IF node.leaf THEN PathOk(depth * Scale)
    ELSE IF node.feature > Len(point) THEN PathPanic
    ELSE IF point[node.feature] < node.threshold
         THEN PathLengthDepthOnly(node.left, point, depth + 1)
         ELSE PathLengthDepthOnly(node.right, point, depth + 1)

\* PathLength with a fault: the leaf adds its size, not c(size).
RECURSIVE PathLengthAddsSize(_, _, _)
PathLengthAddsSize(node, point, depth) ==
    IF node.leaf THEN PathOk(depth * Scale + node.size * Scale)
    ELSE IF node.feature > Len(point) THEN PathPanic
    ELSE IF point[node.feature] < node.threshold
         THEN PathLengthAddsSize(node.left, point, depth + 1)
         ELSE PathLengthAddsSize(node.right, point, depth + 1)

\* PathLength with a fault: a point equal to the threshold goes left.
RECURSIVE PathLengthEqualGoesLeft(_, _, _)
PathLengthEqualGoesLeft(node, point, depth) ==
    IF node.leaf THEN PathOk(depth * Scale + C(node.size))
    ELSE IF node.feature > Len(point) THEN PathPanic
    ELSE IF point[node.feature] <= node.threshold
         THEN PathLengthEqualGoesLeft(node.left, point, depth + 1)
         ELSE PathLengthEqualGoesLeft(node.right, point, depth + 1)

\* IsolationNode::path_length.  Features are numbered from 1 here.
RECURSIVE PathLength(_, _, _)
PathLength(node, point, depth) ==
    IF node.leaf THEN PathOk(depth * Scale + C(node.size))
    ELSE IF node.feature > Len(point) THEN PathPanic
    ELSE IF point[node.feature] < node.threshold
         THEN PathLength(node.left, point, depth + 1)
         ELSE PathLength(node.right, point, depth + 1)

RECURSIVE SeqMin(_, _)
SeqMin(data, feature) ==
    IF Len(data) = 1 THEN data[1][feature]
    ELSE Min(data[1][feature], SeqMin(Tail(data), feature))

RECURSIVE SeqMax(_, _)
SeqMax(data, feature) ==
    IF Len(data) = 1 THEN data[1][feature]
    ELSE Max(data[1][feature], SeqMax(Tail(data), feature))

\* SplitThresholds with a fault: the range is closed, max_val can be drawn.
SplitThresholdsClosed(min_val, max_val) == min_val .. max_val

\* rng.gen_range(min_val..max_val): any value of the half-open range.
SplitThresholds(min_val, max_val) == min_val .. (max_val - 1)

\* data.iter().cloned().partition(|sample| sample[feature] < threshold)
LeftPart(data, feature, threshold) ==
    SelectSeq(data, LAMBDA sample : sample[feature] < threshold)
RightPart(data, feature, threshold) ==
    SelectSeq(data, LAMBDA sample : ~(sample[feature] < threshold))

RECURSIVE BuildNode(_, _, _)

\* BuildNodeSplit with a fault: the subtrees are built at depth, not at
\* depth + 1.
BuildNodeSplitSameDepth(data, depth, max_depth, feature, threshold) ==
    LET left_data == LeftPart(data, feature, threshold)
        right_data == RightPart(data, feature, threshold)
    IN IF left_data = <<>> \/ right_data = <<>>
       THEN {Leaf(Len(data))}
       ELSE { Branch(feature, threshold, l, r) :
                l \in BuildNode(left_data, depth, max_depth),
                r \in BuildNode(right_data, depth, max_depth) }

\* build_node from the partition on: what it returns once the random
\* generator has given feature and threshold.
BuildNodeSplit(data, depth, max_depth, feature, threshold) ==
    LET left_data == LeftPart(data, feature, threshold)
        right_data == RightPart(data, feature, threshold)
    IN IF left_data = <<>> \/ right_data = <<>>
       THEN {Leaf(Len(data))}
       ELSE { Branch(feature, threshold, l, r) :
                l \in BuildNode(left_data, depth + 1, max_depth),
                r \in BuildNode(right_data, depth + 1, max_depth) }

\* build_node from the range of the feature on: what it can return once the
\* random generator has given feature.
BuildNodeFeature(data, depth, max_depth, feature) ==
    LET min_val == SeqMin(data, feature)
        max_val == SeqMax(data, feature)
    IN IF max_val - min_val < EPSILON THEN {Leaf(Len(data))}
       ELSE UNION { BuildNodeSplit(data, depth, max_depth, feature, threshold) :
                      threshold \in SplitThresholds(min_val, max_val) }

\* The base case of build_node.
BaseCase(data, depth, max_depth) == depth >= max_depth \/ Len(data) <= 1

\* IsolationTree::build_node: the set of nodes the random generator can
\* make it return.
BuildNode(data, depth, max_depth) ==
    IF BaseCase(data, depth, max_depth) THEN {Leaf(Len(data))}
    ELSE UNION { BuildNodeFeature(data, depth, max_depth, feature) :
                   feature \in 1 .. Len(data[1]) }

\* (sample_size as f64).log2().ceil() as usize; the cast takes log2(0) = -inf
\* to 0.
RECURSIVE CeilLog2From(_, _, _)
CeilLog2From(n, k, pow) ==
    IF pow >= n THEN k ELSE CeilLog2From(n, k + 1, 2 * pow)

\* CeilLog2 with a fault: floor(log2(n)) + 1, one more than the ceiling at
\* the powers of two.
FloorLog2PlusOne(n) == IF n <= 1 THEN 0 ELSE CeilLog2From(n + 1, 0, 1)

CeilLog2(n) == CeilLog2From(n, 0, 1)

\* The subsamples one tree can be built from: actual_sample_size draws with
\* replacement from data, each data[idx] for any idx of 0 .. data.len().
Subsamples(data, actual_sample_size) ==
    [1 .. actual_sample_size -> { data[idx] : idx \in 1 .. Len(data) }]

\* IsolationTree::fit on every subsample.
TreesOf(data, max_depth, actual_sample_size) ==
    UNION { BuildNode(sub, 0, max_depth) :
              sub \in Subsamples(data, actual_sample_size) }

\* Fit with a fault: the forest keeps the requested sample_size, not the
\* size of the subsamples its trees were built from.
FitKeepsRequested(data, n_trees, sample_size) ==
    LET max_depth == CeilLog2(sample_size)
        actual_sample_size == Min(sample_size, Len(data))
    IN { [trees |-> ts, sample_size |-> sample_size] :
           ts \in [1 .. n_trees -> TreesOf(data, max_depth, actual_sample_size)] }

\* IsolationForest::fit: the set of forests it can return.
Fit(data, n_trees, sample_size) ==
    LET max_depth == CeilLog2(sample_size)
        actual_sample_size == Min(sample_size, Len(data))
    IN { [trees |-> ts, sample_size |-> actual_sample_size] :
           ts \in [1 .. n_trees -> TreesOf(data, max_depth, actual_sample_size)] }

\* Scores.
Num(v) == [kind |-> "Num", val |-> v]
NaN == [kind |-> "NaN", val |-> 0]
Panic == [kind |-> "Panic", val |-> 0]

\* NeutralScore with a fault: the degenerate forest scores 1.0.
NeutralScoreOne == Num(Scale)

\* The neutral score returned when c(sample_size) = 0.
NeutralScore == Num(Scale \div 2)

RECURSIVE SumPaths(_, _, _)
SumPaths(trees, point, i) ==
    IF i > Len(trees) THEN 0
    ELSE PathLength(trees[i], point, 0).len + SumPaths(trees, point, i + 1)

\* Score with a fault: no guard for c(sample_size) = 0, so the exponent is a
\* division by 0.0: NaN for a zero average, 2^-inf = 0 for a positive one.
ScoreUnguarded(f, point) ==
    IF \E i \in 1 .. Len(f.trees) : PathLength(f.trees[i], point, 0).panic
    THEN Panic
    ELSE LET avg_path_length ==
                 IF Len(f.trees) = 0 THEN NaN
                 ELSE Num(SumPaths(f.trees, point, 1) \div Len(f.trees))
             cn == C(f.sample_size)
         IN IF avg_path_length.kind = "NaN" THEN NaN
            ELSE IF cn = 0
                 THEN (IF avg_path_length.val = 0 THEN NaN ELSE Num(0))
            ELSE Num(Pow2Neg(FDiv(avg_path_length.val, cn)))

\* Score with a fault: the power is taken as a normality, 1 - 2^(-E[h]/c).
ScoreInverted(f, point) ==
    IF \E i \in 1 .. Len(f.trees) : PathLength(f.trees[i], point, 0).panic
    THEN Panic
    ELSE LET avg_path_length ==
                 IF Len(f.trees) = 0 THEN NaN
                 ELSE Num(SumPaths(f.trees, point, 1) \div Len(f.trees))
             cn == C(f.sample_size)
         IN IF cn = 0 THEN NeutralScore
            ELSE IF avg_path_length.kind = "NaN" THEN NaN
            ELSE Num(Scale - Pow2Neg(FDiv(avg_path_length.val, cn)))

\* IsolationForest::score.  The sum of no path lengths is 0.0 and
\* 0.0 / 0.0 is NaN; powf of NaN is NaN.
Score(f, point) ==
    IF \E i \in 1 .. Len(f.trees) : PathLength(f.trees[i], point, 0).panic
    THEN Panic
    ELSE LET avg_path_length ==
                 IF Len(f.trees) = 0 THEN NaN
                 ELSE Num(SumPaths(f.trees, point, 1) \div Len(f.trees))
             cn == C(f.sample_size)
         IN IF cn = 0 THEN NeutralScore
            ELSE IF avg_path_length.kind = "NaN" THEN NaN
            ELSE Num(Pow2Neg(FDiv(avg_path_length.val, cn)))

----------------------------------------------------------------------------
(* detector.rs                                                             *)

VARIABLES
    config,              \* DetectorConfig
    forest,              \* Option<IsolationForest>
    buffer,              \* Vec<Vec<f64>>
    events_since_train,
    total_events,
    total_anomalies,
    history,             \* every event passed to process, in order
    returned,            \* what the last process call returned
    last_score,          \* the score the last process call computed, if any
    train_log,           \* the numbers of the process calls that ran train()
    trained_on,          \* the data the last train() passed to fit
    report_log,          \* every report returned so far, in order
    fit_input,           \* arguments of the last direct IsolationForest::fit
    fit_forest,          \* the forest that call returned
    scored,              \* point and result of the last direct score call
    c_table,             \* c(0), c(1), ... as computed by direct calls of c
    parsed,              \* line and result of the last direct parse_line call
    built,               \* arguments, random draws and result of the last direct
                         \* build_node call
    context,             \* a ConversationContext used directly
    added,               \* every turn passed to its add_turn, in order
    manager,             \* a ConversationManager
    now,                 \* the calls made on either of the two so far: the clock
    last_call            \* the last call made on the manager

detector_vars ==
    <<config, forest, buffer, events_since_train, total_events,
      total_anomalies, history, returned, last_score, train_log, trained_on,
      report_log>>
forest_vars == <<fit_input, fit_forest, scored>>
call_vars == <<c_table, parsed, built>>
conversation_vars == <<context, added, manager, now, last_call>>
vars == <<detector_vars, forest_vars, call_vars, conversation_vars>>

None == <<>>
Some(x) == <<x>>

\* Grid values of one feature, and the events of the feed: an event stands
\* for the feature vector extracted from it.
Values == {0, 2}
Events == { [features |-> <<v>>] : v \in Values }

\* features::extract_features
ExtractFeatures(event) == event.features

\* Thresholds 0.5 and 0.6, and ensemble widths.
Thresholds == {Scale \div 2, (3 * Scale) \div 5}
TreeCounts == {0, 1, 2}

Configs ==
    [n_trees : TreeCounts,
     buffer_size : 0 .. MaxBufferSize,
     threshold : Thresholds,
     retrain_interval : 0 .. MaxRetrainInterval]

\* DetectorConfig::default
DefaultConfig ==
    [n_trees |-> 100, buffer_size |-> 256, threshold |-> (65 * Scale) \div 100,
     retrain_interval |-> 1000]

\* Detector::new
NewDetector(cfg) ==
    /\ config = cfg
    /\ forest = None
    /\ buffer = <<>>
    /\ events_since_train = 0
    /\ total_events = 0
    /\ total_anomalies = 0
    /\ history = <<>>
    /\ returned = None
    /\ last_score = None
    /\ train_log = <<>>
    /\ trained_on = None
    /\ report_log = <<>>

NoForestCalls ==
    /\ fit_input = None
    /\ fit_forest = None
    /\ scored = None

NoCalls ==
    /\ NoForestCalls
    /\ c_table = <<>>
    /\ parsed = None
    /\ built = None

NoConversation ==
    /\ context = None
    /\ added = <<>>
    /\ manager = None
    /\ now = 0
    /\ last_call = None

Init ==
    /\ \E cfg \in Configs : NewDetector(cfg)
    /\ NoCalls /\ NoConversation

\* Detector::is_trained
IsTrained == forest # None

\* BufferFull with a fault: trains one event late.
BufferFullStrict(buf) == Len(buf) > config.buffer_size

\* self.buffer.len() >= self.config.buffer_size
BufferFull(buf) == Len(buf) >= config.buffer_size

\* Evict with a fault: the buffer is truncated to buffer_size, which drops
\* the newest vectors and keeps the oldest.
EvictNewest(buf) ==
    IF Len(buf) > config.buffer_size * 2
    THEN SubSeq(buf, 1, config.buffer_size)
    ELSE buf

\* Evict with a fault: cuts back to the cap 2 * buffer_size, not to buffer_size.
EvictToCap(buf) ==
    IF Len(buf) > config.buffer_size * 2
    THEN LET drain_count == Len(buf) - config.buffer_size * 2
         IN SubSeq(buf, drain_count + 1, Len(buf))
    ELSE buf

\* The eviction of the sliding buffer: drain(0..len - buffer_size) once the
\* length exceeds 2 * buffer_size.
Evict(buf) ==
    IF Len(buf) > config.buffer_size * 2
    THEN LET drain_count == Len(buf) - config.buffer_size
         IN SubSeq(buf, drain_count + 1, Len(buf))
    ELSE buf

\* RetrainDue with a fault: retrains one event late.
RetrainDueStrict(since) == since > config.retrain_interval

\* self.events_since_train >= self.config.retrain_interval
RetrainDue(since) == since >= config.retrain_interval

\* IsAnomalous with a fault: a score equal to the threshold is not reported.
IsAnomalousStrict(score) == score.kind = "Num" /\ score.val > config.threshold

\* score >= self.config.threshold; a NaN compares false.
IsAnomalous(score) == score.kind = "Num" /\ score.val >= config.threshold

\* Report with a fault: numbers the events from the first scored one.
ReportFromFirstScored(event, score, number) ==
    [event |-> event, score |-> score,
     event_number |-> number - config.buffer_size]

\* AnomalyReport { event, score, event_number }
Report(event, score, number) ==
    [event |-> event, score |-> score, event_number |-> number]

\* NextTotalEvents with a fault: counts only the events that are scored.
NextTotalEventsScored == IF forest = None THEN total_events ELSE total_events + 1

\* self.total_events += 1, the first statement of process after the features.
NextTotalEvents == total_events + 1

\* Train with a fault: the whole buffer is the sample, not buffer_size of it.
TrainWholeBuffer(buf) == Fit(buf, config.n_trees, Len(buf))

\* Detector::train: the forests it can install.
Train(buf) == Fit(buf, config.n_trees, config.buffer_size)

\* The buffering branch of Detector::process.
ProcessBuffering(event) ==
    LET features == ExtractFeatures(event)
        buf == Append(buffer, features)
    IN /\ total_events' = NextTotalEvents
       /\ buffer' = buf
       /\ IF BufferFull(buf)
          THEN /\ \E f \in Train(buf) : forest' = Some(f)
               /\ events_since_train' = 0
               /\ train_log' = Append(train_log, Len(history) + 1)
               /\ trained_on' = Some(buf)
          ELSE UNCHANGED <<forest, events_since_train, train_log, trained_on>>
       /\ returned' = None
       /\ last_score' = None
       /\ UNCHANGED <<total_anomalies, report_log>>

\* The detecting branch of Detector::process.
\* ProcessDetecting with a fault: a call that does not retrain refits the
\* forest to the buffer all the same, outside train().
ProcessDetectingRefits(event) ==
    LET features == ExtractFeatures(event)
        events == NextTotalEvents
        score == Score(forest[1], features)
        since == events_since_train + 1
        buf == Evict(Append(buffer, features))
    IN /\ score.kind # "Panic"
       /\ total_events' = events
       /\ buffer' = buf
       /\ \E f \in Train(buf) : forest' = Some(f)
       /\ IF RetrainDue(since)
          THEN /\ events_since_train' = 0
               /\ train_log' = Append(train_log, Len(history) + 1)
               /\ trained_on' = Some(buf)
          ELSE /\ events_since_train' = since
               /\ UNCHANGED <<train_log, trained_on>>
       /\ last_score' = Some(score)
       /\ IF IsAnomalous(score)
          THEN /\ total_anomalies' = total_anomalies + 1
               /\ returned' = Some(Report(event, score, events))
               /\ report_log' = Append(report_log, Report(event, score, events))
          ELSE /\ returned' = None
               /\ UNCHANGED <<total_anomalies, report_log>>

\* ProcessDetecting with a fault: the retrain runs before the eviction, on
\* the buffer as the push left it.
ProcessDetectingTrainFirst(event) ==
    LET features == ExtractFeatures(event)
        events == NextTotalEvents
        score == Score(forest[1], features)
        since == events_since_train + 1
        pushed == Append(buffer, features)
    IN /\ score.kind # "Panic"
       /\ total_events' = events
       /\ buffer' = Evict(pushed)
       /\ IF RetrainDue(since)
          THEN /\ \E f \in Train(pushed) : forest' = Some(f)
               /\ events_since_train' = 0
               /\ train_log' = Append(train_log, Len(history) + 1)
               /\ trained_on' = Some(pushed)
          ELSE /\ events_since_train' = since
               /\ UNCHANGED <<forest, train_log, trained_on>>
       /\ last_score' = Some(score)
       /\ IF IsAnomalous(score)
          THEN /\ total_anomalies' = total_anomalies + 1
               /\ returned' = Some(Report(event, score, events))
               /\ report_log' = Append(report_log, Report(event, score, events))
          ELSE /\ returned' = None
               /\ UNCHANGED <<total_anomalies, report_log>>

\* ProcessDetecting with a fault: the observation is scored after the
\* retrain, with the forest that call built.
ProcessDetectingScoreLate(event) ==
    LET features == ExtractFeatures(event)
        events == NextTotalEvents
        score == Score(forest'[1], features)
        since == events_since_train + 1
        buf == Evict(Append(buffer, features))
    IN /\ total_events' = events
       /\ buffer' = buf
       /\ IF RetrainDue(since)
          THEN /\ \E f \in Train(buf) : forest' = Some(f)
               /\ events_since_train' = 0
               /\ train_log' = Append(train_log, Len(history) + 1)
               /\ trained_on' = Some(buf)
          ELSE /\ events_since_train' = since
               /\ UNCHANGED <<forest, train_log, trained_on>>
       /\ score.kind # "Panic"
       /\ last_score' = Some(score)
       /\ IF IsAnomalous(score)
          THEN /\ total_anomalies' = total_anomalies + 1
               /\ returned' = Some(Report(event, score, events))
               /\ report_log' = Append(report_log, Report(event, score, events))
          ELSE /\ returned' = None
               /\ UNCHANGED <<total_anomalies, report_log>>

ProcessDetecting(event) ==
    LET features == ExtractFeatures(event)
        events == NextTotalEvents
        score == Score(forest[1], features)
        since == events_since_train + 1
        buf == Evict(Append(buffer, features))
    IN /\ score.kind # "Panic"      \* a panic unwinds out of process
       /\ total_events' = events
       /\ buffer' = buf
       /\ IF RetrainDue(since)
          THEN /\ \E f \in Train(buf) : forest' = Some(f)
               /\ events_since_train' = 0
               /\ train_log' = Append(train_log, Len(history) + 1)
               /\ trained_on' = Some(buf)
          ELSE /\ events_since_train' = since
               /\ UNCHANGED <<forest, train_log, trained_on>>
       /\ last_score' = Some(score)
       /\ IF IsAnomalous(score)
          THEN /\ total_anomalies' = total_anomalies + 1
               /\ returned' = Some(Report(event, score, events))
               /\ report_log' = Append(report_log, Report(event, score, events))
          ELSE /\ returned' = None
               /\ UNCHANGED <<total_anomalies, report_log>>

\* Detector::process
Process(event) ==
    /\ history' = Append(history, event)
    /\ IF forest = None THEN ProcessBuffering(event) ELSE ProcessDetecting(event)
    /\ UNCHANGED config
    /\ UNCHANGED forest_vars
    /\ UNCHANGED call_vars
    /\ UNCHANGED conversation_vars

Next == Len(history) < MaxCalls /\ \E event \in Events : Process(event)

Spec == Init /\ [][Next]_vars

----------------------------------------------------------------------------
(* The end-to-end scenario of the specification: buffer_size = 5,          *)
(* n_trees = 10, threshold = 0.65, the default retrain interval; the feed  *)
(* is the cluster vector [0,0,0] and, once trained, also the far vector    *)
(* [1000,1000,1000].                                                       *)

E2EConfig ==
    [n_trees |-> 10, buffer_size |-> 5, threshold |-> (65 * Scale) \div 100,
     retrain_interval |-> DefaultConfig.retrain_interval]

ClusterEvent == [features |-> <<0, 0, 0>>]
OutlierEvent == [features |-> <<1000, 1000, 1000>>]

InitE2E == NewDetector(E2EConfig) /\ NoCalls /\ NoConversation

FeedCluster == Len(history) < MaxCallsE2E /\ Process(ClusterEvent)
FeedOutlier == Len(history) < MaxCallsE2E /\ IsTrained /\ Process(OutlierEvent)

NextE2E == FeedCluster \/ FeedOutlier

SpecE2E == InitE2E /\ [][NextE2E]_vars

----------------------------------------------------------------------------
(* IsolationForest::fit and IsolationForest::score called directly: on      *)
(* every data set of up to MaxData vectors of one dimension, and with one   *)
(* tree on a chain of four distinct values, the least data on which the     *)
(* depth limit of a tree cuts a branch short.  Points are of any length and *)
(* may lie far outside the data.                                           *)

Dims == {1, 2}
VectorsOf(dim) == [1 .. dim -> Values]
DataSets ==
    UNION { UNION { [1 .. n -> VectorsOf(dim)] : n \in 0 .. MaxData } : dim \in Dims }

\* A coordinate far outside every data set, as the point [10, 10, 10] is
\* outside the cluster around [0.5, 0.5, 0.5] of test_fit_and_score.
Far == 1000
Points == UNION { [1 .. dim -> Values \cup {Far}] : dim \in {0} \cup Dims }

ChainData == << <<0>>, <<2>>, <<4>>, <<6>> >>

\* The arguments of fit.
ForestInputs ==
    [data : DataSets, n_trees : TreeCounts, sample_size : 0 .. MaxSampleSize]
    \cup [data : {ChainData}, n_trees : {1}, sample_size : 0 .. MaxChainSample]

InitForest == NewDetector(DefaultConfig) /\ NoCalls /\ NoConversation

FitCall ==
    /\ fit_forest = None
    /\ \E input \in ForestInputs :
          /\ fit_input' = Some(input)
          /\ \E f \in Fit(input.data, input.n_trees, input.sample_size) :
                fit_forest' = Some(f)
    /\ UNCHANGED scored
    /\ UNCHANGED detector_vars
    /\ UNCHANGED call_vars
    /\ UNCHANGED conversation_vars

ScoreCall ==
    /\ fit_forest # None
    /\ \E point \in Points :
          scored' = Some([point |-> point, score |-> Score(fit_forest[1], point)])
    /\ UNCHANGED <<fit_input, fit_forest>>
    /\ UNCHANGED detector_vars
    /\ UNCHANGED call_vars
    /\ UNCHANGED conversation_vars

NextForest == FitCall \/ ScoreCall

SpecForest == InitForest /\ [][NextForest]_vars

----------------------------------------------------------------------------
(* IsolationTree::build_node called directly, at a depth up to max_depth,  *)
(* with the values the random generator returns made explicit: feature is  *)
(* None when the base case returns before the draw, threshold is None when *)
(* the feature has no range to draw from.                                  *)

\* Two distinct values closer than EPSILON.
NearData == << <<0>>, <<1>> >>

BuildData == DataSets \cup {ChainData, NearData}

BuildCall(data, depth, max_depth, feature, threshold, node) ==
    [data |-> data, depth |-> depth, max_depth |-> max_depth,
     feature |-> feature, threshold |-> threshold, node |-> node]

InitBuild == NewDetector(DefaultConfig) /\ NoCalls /\ NoConversation

BuildNodeCall ==
    /\ built = None
    /\ \E data \in BuildData, max_depth \in 0 .. MaxDepth :
       \E depth \in 0 .. max_depth :
          IF BaseCase(data, depth, max_depth)
          THEN \E node \in BuildNode(data, depth, max_depth) :
                  built' = Some(BuildCall(data, depth, max_depth, None, None, node))
          ELSE \E feature \in 1 .. Len(data[1]) :
                  IF SeqMax(data, feature) - SeqMin(data, feature) < EPSILON
                  THEN \E node \in BuildNodeFeature(data, depth, max_depth, feature) :
                          built' = Some(BuildCall(data, depth, max_depth,
                                                  Some(feature), None, node))
                  ELSE \E threshold \in SplitThresholds(SeqMin(data, feature),
                                                       SeqMax(data, feature)) :
                       \E node \in BuildNodeSplit(data, depth, max_depth,
                                                  feature, threshold) :
                          built' = Some(BuildCall(data, depth, max_depth,
                                                  Some(feature), Some(threshold), node))
    /\ UNCHANGED detector_vars
    /\ UNCHANGED forest_vars
    /\ UNCHANGED <<c_table, parsed>>
    /\ UNCHANGED conversation_vars

NextBuild == BuildNodeCall

SpecBuild == InitBuild /\ [][NextBuild]_vars

----------------------------------------------------------------------------
(* c called directly, on n = 0, 1, ..., MaxNorm in turn.                   *)

InitNorm == NewDetector(DefaultConfig) /\ NoCalls /\ NoConversation

CCall ==
    /\ Len(c_table) <= MaxNorm
    /\ c_table' = Append(c_table, C(Len(c_table)))
    /\ UNCHANGED <<parsed, built>>
    /\ UNCHANGED conversation_vars
    /\ UNCHANGED detector_vars
    /\ UNCHANGED forest_vars

NextNorm == CCall

SpecNorm == InitNorm /\ [][NextNorm]_vars

----------------------------------------------------------------------------
(* parser.rs.  A line is a sequence of characters, each a string of        *)
(* length one.                                                             *)

Whitespace == {" ", "\t"}
Digits == <<"0", "1", "2", "3", "4", "5", "6", "7", "8", "9">>
LowerCase == <<"c", "d", "e", "g", "i", "m", "p", "r", "t", "u">>
UpperCase == <<"C", "D", "E", "G", "I", "M", "P", "R", "T", "U">>

IsDigit(ch) == \E d \in 1 .. 10 : Digits[d] = ch
DigitValue(ch) == (CHOOSE d \in 1 .. 10 : Digits[d] = ch) - 1

\* str::trim
RECURSIVE TrimStart(_)
TrimStart(line) ==
    IF line # <<>> /\ Head(line) \in Whitespace THEN TrimStart(Tail(line))
    ELSE line

RECURSIVE TrimEnd(_)
TrimEnd(line) ==
    IF line # <<>> /\ line[Len(line)] \in Whitespace
    THEN TrimEnd(SubSeq(line, 1, Len(line) - 1))
    ELSE line

Trim(line) == TrimEnd(TrimStart(line))

\* str::split_whitespace: the maximal runs of characters that are not
\* whitespace, in order; word is the run being read.
RECURSIVE SplitFrom(_, _)
SplitFrom(line, word) ==
    IF line = <<>> THEN (IF word = <<>> THEN <<>> ELSE <<word>>)
    ELSE IF Head(line) \in Whitespace
         THEN (IF word = <<>> THEN SplitFrom(Tail(line), <<>>)
               ELSE <<word>> \o SplitFrom(Tail(line), <<>>))
         ELSE SplitFrom(Tail(line), Append(word, Head(line)))

SplitWhitespace(line) == SplitFrom(line, <<>>)

\* The decimal digits of text read as a number; text is short enough for the
\* number to be exact.
RECURSIVE DecimalValue(_, _)
DecimalValue(text, acc) ==
    IF text = <<>> THEN acc
    ELSE DecimalValue(Tail(text), 10 * acc + DigitValue(Head(text)))

AllDigits(text) == \A i \in 1 .. Len(text) : IsDigit(text[i])

RECURSIVE StripZeros(_)
StripZeros(digits) ==
    IF Len(digits) > 1 /\ Head(digits) = "0" THEN StripZeros(Tail(digits))
    ELSE digits

\* The text after an optional leading '+'.
Unsigned(text) == IF text # <<>> /\ Head(text) = "+" THEN Tail(text) ELSE text

\* <u16 as FromStr>::from_str: an optional '+', then one or more digits of a
\* value up to u16::MAX.
U16Max == 65535
ParseU16(text) ==
    LET digits == Unsigned(text)
    IN IF digits = <<>> \/ ~AllDigits(digits) THEN None
       ELSE IF Len(StripZeros(digits)) > 5 THEN None
       ELSE IF DecimalValue(digits, 0) > U16Max THEN None
       ELSE Some(DecimalValue(digits, 0))

\* Digit strings of equal length, compared as numbers.
RECURSIVE DigitsGreater(_, _)
DigitsGreater(a, b) ==
    IF a = <<>> THEN FALSE
    ELSE IF Head(a) # Head(b) THEN DigitValue(Head(a)) > DigitValue(Head(b))
    ELSE DigitsGreater(Tail(a), Tail(b))

\* u64::MAX = 18446744073709551615.
U64MaxDigits ==
    <<"1", "8", "4", "4", "6", "7", "4", "4", "0", "7", "3", "7", "0", "9",
      "5", "5", "1", "6", "1", "5">>

\* <u64 as FromStr>::from_str.  A u64 is kept as its decimal digits without
\* leading zeros.
ParseU64(text) ==
    LET digits == Unsigned(text)
        value == StripZeros(digits)
    IN IF digits = <<>> \/ ~AllDigits(digits) THEN None
       ELSE IF Len(value) > Len(U64MaxDigits) THEN None
       ELSE IF Len(value) = Len(U64MaxDigits) /\ DigitsGreater(value, U64MaxDigits)
            THEN None
       ELSE Some(value)

\* The number of leading digits of text, up to width.
RECURSIVE PrefixDigits(_, _)
PrefixDigits(text, width) ==
    IF width = 0 \/ text = <<>> \/ ~IsDigit(Head(text)) THEN 0
    ELSE 1 + PrefixDigits(Tail(text), width - 1)

\* <f64 as FromStr>::from_str on decimal notation: an optional sign, digits
\* with an optional '.', at least one digit; the value in fixed point.  The
\* texts of the feed use no exponent, "inf" or "nan".
FractionValue(digits) ==
    DecimalValue(SubSeq(digits \o <<"0", "0", "0", "0">>, 1, 4), 0)

ParseF64(text) ==
    LET signed == text # <<>> /\ Head(text) \in {"+", "-"}
        body == IF signed THEN Tail(text) ELSE text
        whole == SubSeq(body, 1, PrefixDigits(body, Len(body)))
        after == SubSeq(body, Len(whole) + 1, Len(body))
        fraction == IF after # <<>> /\ Head(after) = "." THEN Tail(after) ELSE <<>>
        magnitude == DecimalValue(whole, 0) * Scale + FractionValue(fraction)
    IN IF after # <<>> /\ Head(after) # "." THEN None
       ELSE IF ~AllDigits(fraction) THEN None
       ELSE IF whole = <<>> /\ fraction = <<>> THEN None
       ELSE IF signed /\ Head(text) = "-" THEN Some(0 - magnitude)
       ELSE Some(magnitude)

\* The items of the format "%Y-%m-%dT%H:%M:%S": a number of up to width
\* digits, or a literal character.
Number(width) == [number |-> TRUE, width |-> width, literal |-> ""]
Literal(ch) == [number |-> FALSE, width |-> 0, literal |-> ch]
TimestampFormat ==
    <<Number(4), Literal("-"), Number(2), Literal("-"), Number(2), Literal("T"),
      Number(2), Literal(":"), Number(2), Literal(":"), Number(2)>>

\* chrono's scan of text by a format: the numbers read, or None when an item
\* does not match or input is left over.
RECURSIVE ScanItems(_, _, _)
ScanItems(text, items, numbers) ==
    IF items = <<>> THEN (IF text = <<>> THEN Some(numbers) ELSE None)
    ELSE IF Head(items).number
         THEN LET n == PrefixDigits(text, Head(items).width)
              IN IF n = 0 THEN None
                 ELSE ScanItems(SubSeq(text, n + 1, Len(text)), Tail(items),
                                Append(numbers, DecimalValue(SubSeq(text, 1, n), 0)))
         ELSE IF text # <<>> /\ Head(text) = Head(items).literal
              THEN ScanItems(Tail(text), Tail(items), numbers)
              ELSE None

IsLeapYear(year) == year % 4 = 0 /\ (year % 100 # 0 \/ year % 400 = 0)
DaysInMonth(year, month) ==
    IF month = 2 THEN (IF IsLeapYear(year) THEN 29 ELSE 28)
    ELSE IF month \in {4, 6, 9, 11} THEN 30 ELSE 31

\* NaiveDateTime::parse_from_str(text, "%Y-%m-%dT%H:%M:%S").ok()
ParseTimestamp(text) ==
    LET scan == ScanItems(text, TimestampFormat, <<>>)
    IN IF scan = None THEN None
       ELSE LET n == scan[1]
            IN IF /\ n[2] \in 1 .. 12
                  /\ n[3] \in 1 .. DaysInMonth(n[1], n[2])
                  /\ n[4] <= 23 /\ n[5] <= 59 /\ n[6] <= 60
               THEN Some([year |-> n[1], month |-> n[2], day |-> n[3],
                          hour |-> n[4], minute |-> n[5], second |-> n[6]])
               ELSE None

\* str::to_uppercase
ToUpper(ch) ==
    IF \E i \in 1 .. Len(LowerCase) : LowerCase[i] = ch
    THEN UpperCase[CHOOSE i \in 1 .. Len(LowerCase) : LowerCase[i] = ch]
    ELSE ch
ToUppercase(text) == [i \in 1 .. Len(text) |-> ToUpper(text[i])]

\* parse_protocol
ParseProtocol(text) ==
    LET upper == ToUppercase(text)
    IN IF upper = <<"T", "C", "P">> THEN "Tcp"
       ELSE IF upper = <<"U", "D", "P">> THEN "Udp"
       ELSE IF upper = <<"I", "C", "M", "P">> THEN "Icmp"
       ELSE "Other"

\* The result of a call: the Option returned, or a panic of an index
\* parts[k].
Returned(event) == [panic |-> FALSE, event |-> event]
IndexPanic == [panic |-> TRUE, event |-> None]

\* TooFewFields with a fault: lines of seven fields pass.
TooFewFieldsSeven(parts) == Len(parts) < 7

\* parts.len() < 8
TooFewFields(parts) == Len(parts) < 8

\* The conversion of parts[k - 1], as an Option.
ParseField(k, text) ==
    CASE k = 1 -> ParseTimestamp(text)
      [] k = 2 -> Some(text)
      [] k = 3 -> ParseU16(text)
      [] k = 4 -> Some(text)
      [] k = 5 -> ParseU16(text)
      [] k = 6 -> Some(ParseProtocol(text))
      [] k = 7 -> ParseU64(text)
      [] k = 8 -> ParseF64(text)

\* NetworkEvent { timestamp, src_ip, src_port, dst_ip, dst_port, protocol,
\* bytes, duration }
NetworkEvent(values) ==
    [timestamp |-> values[1], src_ip |-> values[2], src_port |-> values[3],
     dst_ip |-> values[4], dst_port |-> values[5], protocol |-> values[6],
     bytes |-> values[7], duration |-> values[8]]

\* The conversions of parse_line in their order: the first that fails
\* returns None.
RECURSIVE ParseFields(_, _, _)
ParseFields(parts, k, values) ==
    IF k > 8 THEN Returned(Some(NetworkEvent(values)))
    ELSE IF k > Len(parts) THEN IndexPanic
    ELSE LET value == ParseField(k, parts[k])
         IN IF value = None THEN Returned(None)
            ELSE ParseFields(parts, k + 1, Append(values, value[1]))

\* parse_line
ParseLine(line) ==
    LET trimmed == Trim(line)
    IN IF trimmed = <<>> \/ Head(trimmed) = "#" THEN Returned(None)
       ELSE LET parts == SplitWhitespace(trimmed)
            IN IF TooFewFields(parts) THEN Returned(None)
               ELSE ParseFields(parts, 1, <<>>)

\* The texts a line is written from: each with the value it denotes, ok when
\* it is well formed for its field.
Token(text, ok, value) == [text |-> text, ok |-> ok, value |-> value]

TimestampTokens ==
    {Token(<<"2", "0", "2", "4", "-", "0", "1", "-", "1",
             "5", "T", "1", "0", ":", "3", "0", ":", "0", "0">>, TRUE,
           [year |-> 2024, month |-> 1, day |-> 15, hour |-> 10, minute |-> 30,
            second |-> 0]),
     Token(<<"2", "0", "2", "4", "-", "0", "2", "-", "3",
             "0", "T", "1", "0", ":", "3", "0", ":", "0", "0">>, FALSE, None)}
SrcIpTokens == {Token(<<"1", "0", ".", "0", ".", "0", ".", "1">>, TRUE, <<"1", "0", ".", "0", ".", "0", ".", "1">>)}
SrcPortTokens ==
    {Token(<<"5", "4", "3", "2", "1">>, TRUE, 54321),
     Token(<<"7", "0", "0", "0", "0">>, FALSE, None)}
DstIpTokens == {Token(<<"1", "0", ".", "0", ".", "0", ".", "2">>, TRUE, <<"1", "0", ".", "0", ".", "0", ".", "2">>)}
DstPortTokens ==
    {Token(<<"4", "4", "3">>, TRUE, 443),
     Token(<<"+", "5", "3">>, TRUE, 53)}
ProtocolTokens ==
    {Token(<<"t", "c", "p">>, TRUE, "Tcp"),
     Token(<<"U", "D", "P">>, TRUE, "Udp"),
     Token(<<"g", "r", "e">>, TRUE, "Other")}
BytesTokens ==
    {Token(<<"0", "1", "5", "0", "0">>, TRUE, <<"1", "5", "0", "0">>),
     Token(<<"1", ".", "5">>, FALSE, None)}
DurationTokens ==
    {Token(<<"0", ".", "0", "5">>, TRUE, (5 * Scale) \div 100),
     Token(<<"f", "a", "s", "t">>, FALSE, None)}

FieldPools ==
    <<TimestampTokens, SrcIpTokens, SrcPortTokens, DstIpTokens, DstPortTokens,
      ProtocolTokens, BytesTokens, DurationTokens>>

\* The sequences of k fields, the k-th drawn from its pool and every field
\* after the eighth from the last pool.
RECURSIVE FieldSeqs(_)
FieldSeqs(k) ==
    IF k = 0 THEN {<<>>}
    ELSE { Append(fields, token) :
             fields \in FieldSeqs(k - 1), token \in FieldPools[Min(k, 8)] }

RECURSIVE Join(_, _)
Join(fields, gap) ==
    IF fields = <<>> THEN <<>>
    ELSE IF Len(fields) = 1 THEN fields[1].text
    ELSE fields[1].text \o gap \o Join(Tail(fields), gap)

\* How a line is written: whitespace before, an optional '#' (alone or
\* followed by a blank), the fields with a gap between them, whitespace after.
LineInputs ==
    [lead : {<<>>, <<" ">>},
     comment : {<<>>, <<"#">>, <<"#", " ">>},
     fields : UNION { FieldSeqs(k) : k \in 0 .. MaxFields },
     gap : {<<" ">>, <<"\t", " ">>},
     trail : {<<>>, <<" ">>}]

LineOf(input) ==
    input.lead \o input.comment \o Join(input.fields, input.gap) \o input.trail

InitParse == NewDetector(DefaultConfig) /\ NoCalls /\ NoConversation

ParseLineCall ==
    /\ parsed = None
    /\ \E input \in LineInputs :
          parsed' = Some([input |-> input, line |-> LineOf(input),
                          result |-> ParseLine(LineOf(input))])
    /\ UNCHANGED detector_vars
    /\ UNCHANGED forest_vars
    /\ UNCHANGED <<c_table, built>>
    /\ UNCHANGED conversation_vars

NextParse == ParseLineCall

SpecParse == InitParse /\ [][NextParse]_vars

----------------------------------------------------------------------------
(* chatbot-nlp: conversation.rs                                            *)
(* A HashMap is a function from its possible keys to Option values; a      *)
(* timestamp is the reading of a clock that ticks at every call.           *)

\* "Keep only last 10 turns"
HistoryCap == 10

SessionIds == {"main-session", "other"}
ContextKeys == {"user_name"}
ContextValues == {"Ada"}

\* The Intent and the entities recognised for a message, as record_turn
\* reads them: the Debug form of the intent and the value of each entity.
Messages ==
    { [user_input |-> "Hello, I am Ada", bot_response |-> "Hello Ada!",
       intent |-> [variant |-> "Greeting"],
       entities |-> << [entity_type |-> "name", value |-> "Ada"] >>],
      [user_input |-> "bye", bot_response |-> "Goodbye!",
       intent |-> [variant |-> "Farewell"],
       entities |-> <<>>] }

DebugFormat(intent) == intent.variant
EntityValues(entities) == [i \in 1 .. Len(entities) |-> entities[i].value]

ConversationTurn(user_input, bot_response, intent, entities, timestamp) ==
    [user_input |-> user_input, bot_response |-> bot_response,
     intent |-> intent, entities |-> entities, timestamp |-> timestamp]

\* The turns a caller of add_turn builds at a given time.
Turns(time) ==
    { ConversationTurn(m.user_input, m.bot_response, DebugFormat(m.intent),
                       EntityValues(m.entities), time) : m \in Messages }

\* ConversationContext::new
NewContext(session_id, time) ==
    [session_id |-> session_id,
     user_name |-> None,
     conversation_history |-> <<>>,
     context_data |-> [key \in ContextKeys |-> None],
     started_at |-> time,
     last_intent |-> None]

AddTurnOverCap(ctx, turn) ==
    [ctx EXCEPT
        !.last_intent = Some(turn.intent),
        !.conversation_history =
            Append(IF Len(ctx.conversation_history) > HistoryCap
                   THEN Tail(ctx.conversation_history)
                   ELSE ctx.conversation_history, turn)]

\* ConversationContext::add_turn
AddTurn(ctx, turn) ==
    [ctx EXCEPT
        !.last_intent = Some(turn.intent),
        !.conversation_history =
            Append(IF Len(ctx.conversation_history) >= HistoryCap
                   THEN Tail(ctx.conversation_history)
                   ELSE ctx.conversation_history, turn)]

\* ConversationContext::set_context
SetContext(ctx, key, value) ==
    [ctx EXCEPT !.context_data[key] = Some(value)]

\* ConversationManager::new
NewManager == [sessions |-> [session_id \in SessionIds |-> None]]

\* ConversationManager::get_or_create_session, as it leaves the manager
GetOrCreateSession(m, session_id, time) ==
    IF m.sessions[session_id] # None THEN m
    ELSE [m EXCEPT !.sessions[session_id] = Some(NewContext(session_id, time))]

\* ConversationManager::get_session and get_session_mut
GetSession(m, session_id) == m.sessions[session_id]

\* ConversationManager::end_session
EndSession(m, session_id) == [m EXCEPT !.sessions[session_id] = None]

RecordTurnCreates(m, session_id, user_input, bot_response, intent, entities, time) ==
    LET turn == ConversationTurn(user_input, bot_response, DebugFormat(intent),
                                 EntityValues(entities), time)
        created == GetOrCreateSession(m, session_id, time)
    IN [created EXCEPT
           !.sessions[session_id] = Some(AddTurn(created.sessions[session_id][1], turn))]

\* ConversationManager::record_turn
RecordTurn(m, session_id, user_input, bot_response, intent, entities, time) ==
    IF GetSession(m, session_id) = None THEN m
    ELSE LET turn == ConversationTurn(user_input, bot_response, DebugFormat(intent),
                                      EntityValues(entities), time)
         IN [m EXCEPT
                !.sessions[session_id] = Some(AddTurn(GetSession(m, session_id)[1], turn))]

----------------------------------------------------------------------------
(* One ConversationContext, built by new and fed by add_turn.              *)

InitContext ==
    /\ NewDetector(DefaultConfig) /\ NoCalls
    /\ context = NewContext("main-session", 0)
    /\ added = <<>>
    /\ manager = None
    /\ now = 0
    /\ last_call = None

AddTurnCall ==
    /\ now < MaxTurns
    /\ now' = now + 1
    /\ \E turn \in Turns(now') :
          /\ context' = AddTurn(context, turn)
          /\ added' = Append(added, turn)
    /\ UNCHANGED <<manager, last_call>>
    /\ UNCHANGED detector_vars
    /\ UNCHANGED forest_vars
    /\ UNCHANGED call_vars

NextContext == AddTurnCall

SpecContext == InitContext /\ [][NextContext]_vars

----------------------------------------------------------------------------
(* One ConversationManager and the calls made on it.                       *)

Call(op, session_id, message) ==
    [op |-> op, session_id |-> session_id, message |-> message]

InitManager ==
    /\ NewDetector(DefaultConfig) /\ NoCalls
    /\ context = None
    /\ added = <<>>
    /\ manager = NewManager
    /\ now = 0
    /\ last_call = None

ManagerCall(op, session_id, message, m) ==
    /\ now < MaxOps
    /\ now' = now + 1
    /\ manager' = m
    /\ last_call' = Some(Call(op, session_id, message))
    /\ UNCHANGED <<context, added>>
    /\ UNCHANGED detector_vars
    /\ UNCHANGED forest_vars
    /\ UNCHANGED call_vars

GetOrCreateSessionCall ==
    \E session_id \in SessionIds :
       ManagerCall("get_or_create_session", session_id, None,
                   GetOrCreateSession(manager, session_id, now + 1))

\* get_session_mut, then set_context on the session found
SetContextCall ==
    \E session_id \in SessionIds, key \in ContextKeys, value \in ContextValues :
       ManagerCall("set_context", session_id, None,
                   IF GetSession(manager, session_id) = None THEN manager
                   ELSE [manager EXCEPT !.sessions[session_id] =
                            Some(SetContext(GetSession(manager, session_id)[1],
                                            key, value))])

EndSessionCall ==
    \E session_id \in SessionIds :
       ManagerCall("end_session", session_id, None,
                   EndSession(manager, session_id))

RecordTurnCall ==
    \E session_id \in SessionIds, message \in Messages :
       ManagerCall("record_turn", session_id, Some(message),
                   RecordTurn(manager, session_id, message.user_input,
                              message.bot_response, message.intent,
                              message.entities, now + 1))

NextManager ==
    \/ GetOrCreateSessionCall
    \/ SetContextCall
    \/ EndSessionCall
    \/ RecordTurnCall

SpecManager == InitManager /\ [][NextManager]_vars

----------------------------------------------------------------------------
(* Claims.                                                                 *)

HalfScale == Scale \div 2

\* The first process call at which the code finds buffer.len() >=
\* buffer_size: call number buffer_size, and the first call when
\* buffer_size = 0.
TransitionCall == Max(config.buffer_size, 1)

\* The distance in calls between two trainings: retrain_interval, and one
\* call when retrain_interval = 0.
RetrainEvery == Max(config.retrain_interval, 1)

\* The feed of the end-to-end scenario: five cluster events, then the outlier.
E2EFeed ==
    history = <<ClusterEvent, ClusterEvent, ClusterEvent, ClusterEvent,
                ClusterEvent, OutlierEvent>>

\* C1, as stated: in the end-to-end scenario the sixth event, the far vector,
\* scores above 0.65 and a report with event_number = 6 is returned.
E2EOutlierReported ==
    E2EFeed =>
        /\ last_score # None
        /\ last_score[1].kind = "Num"
        /\ last_score[1].val > (65 * Scale) \div 100
        /\ returned # None
        /\ returned[1].event_number = 6

\* C1, amended: in the end-to-end scenario the fifth event trains the forest,
\* every tree is a single leaf of size 5, the sixth event scores the neutral
\* 0.5, below the threshold, and no report is returned; total_events is 6 and
\* total_anomalies is 0.
E2EOutlierScoresNeutral ==
    E2EFeed =>
        /\ train_log = <<5>>
        /\ \A i \in 1 .. Len(forest[1].trees) : forest[1].trees[i] = Leaf(5)
        /\ last_score = Some(Num(HalfScale))
        /\ last_score[1].val < config.threshold
        /\ returned = None
        /\ total_events = 6
        /\ total_anomalies = 0

E2EOutlierScored == E2EFeed /\ last_score # None

\* C2: the detector is trained exactly from the call at which the buffer
\* first holds buffer_size vectors; until then the buffer holds every event,
\* stays below buffer_size, and up to and including that call process returns
\* no report.
TransitionWhenBufferFull ==
    /\ IsTrained <=> Len(history) >= TransitionCall
    /\ ~IsTrained => Len(buffer) = Len(history) /\ Len(buffer) < TransitionCall
    /\ train_log # <<>> => train_log[1] = TransitionCall
    /\ Len(history) <= TransitionCall => returned = None /\ report_log = <<>>

JustTrained ==
    /\ config.buffer_size = 2
    /\ IsTrained
    /\ Len(history) = config.buffer_size
    /\ returned = None

\* C3, as stated: once trained, the buffer holds at most 2 * buffer_size
\* vectors at the start of every process call.
BufferWithinCap == IsTrained => Len(buffer) <= 2 * config.buffer_size

\* C3, amended: once trained with buffer_size >= 1, the buffer holds at most
\* 2 * buffer_size vectors between calls (with buffer_size = 0 at most the one
\* vector of the training call), and a call whose append exceeds
\* 2 * buffer_size leaves exactly buffer_size vectors.
BufferWithinCapOrOne ==
    /\ [](IsTrained => Len(buffer) <= Max(2 * config.buffer_size, 1))
    /\ [](IsTrained /\ config.buffer_size = 0 /\ Len(history) > 1 => buffer = <<>>)
    /\ [][ (IsTrained /\ history' # history
              /\ Len(buffer) + 1 > 2 * config.buffer_size)
           => Len(buffer') = config.buffer_size ]_vars

BufferTrimmed ==
    /\ config.buffer_size >= 1
    /\ IsTrained
    /\ Len(history) = 2 * config.buffer_size + 1
    /\ Len(buffer) = config.buffer_size

\* C4: events_since_train stays 0 while buffering; once trained it is the
\* number of calls since the last training and never reaches
\* retrain_interval between calls, and two successive trainings are exactly
\* retrain_interval calls apart.
RetrainCadence ==
    /\ ~IsTrained => events_since_train = 0 /\ train_log = <<>>
    /\ IsTrained =>
          /\ train_log # <<>>
          /\ events_since_train = Len(history) - train_log[Len(train_log)]
          /\ events_since_train < RetrainEvery
    /\ \A i \in 2 .. Len(train_log) :
          train_log[i] - train_log[i - 1] = RetrainEvery

RetrainedOnInterval ==
    /\ config.retrain_interval = 2
    /\ Len(train_log) = 2
    /\ events_since_train = 1

\* C5: total_events is the number of process calls made and total_anomalies
\* the number of calls that returned a report.
CountersMatchCalls ==
    /\ total_events = Len(history)
    /\ total_anomalies = Len(report_log)

CountedBothStates ==
    /\ config.buffer_size >= 1
    /\ Len(history) > config.buffer_size + 1
    /\ Len(report_log) >= 1
    /\ Len(report_log) < Len(history) - config.buffer_size

\* C6: a call made in the Detecting state returns a report exactly when its
\* score is a number >= threshold, the report carries that score, a call made
\* while buffering returns none, and no report ever carries a score below
\* threshold.
ReportIffScoreReachesThreshold ==
    /\ last_score = None => returned = None
    /\ last_score # None =>
          /\ returned # None <=>
                (last_score[1].kind = "Num" /\ last_score[1].val >= config.threshold)
          /\ returned # None => returned[1].score = last_score[1]
    /\ \A i \in 1 .. Len(report_log) :
          /\ report_log[i].score.kind = "Num"
          /\ report_log[i].score.val >= config.threshold

ReportedAtThreshold ==
    /\ returned # None
    /\ returned[1].score.val = config.threshold
    /\ config.buffer_size = 2

\* C7: a report's event_number is the position of its event among all events
\* passed to process, and the numbers of successive reports increase strictly.
EventNumberIsPosition ==
    /\ returned # None =>
          /\ returned[1].event_number = Len(history)
          /\ returned[1] = report_log[Len(report_log)]
    /\ \A i \in 1 .. Len(report_log) :
          /\ report_log[i].event_number \in 1 .. Len(history)
          /\ history[report_log[i].event_number] = report_log[i].event
    /\ \A i \in 2 .. Len(report_log) :
          report_log[i].event_number > report_log[i - 1].event_number

TwoReportsAfterBuffering ==
    /\ config.buffer_size >= 2
    /\ Len(report_log) >= 2
    /\ returned # None

\* The point of the last direct score call has the dimension the forest was
\* trained on.
ScoredSameDimension ==
    /\ scored # None
    /\ (fit_input[1].data = <<>>
          \/ Len(scored[1].point) = Len(fit_input[1].data[1]))

ScoredOtherDimension ==
    /\ scored # None
    /\ fit_input[1].data # <<>>
    /\ Len(scored[1].point) # Len(fit_input[1].data[1])

\* C8: the score of a point of the training dimension, by any forest fit
\* returned, is a number in (0, 1].
ScoreInUnitInterval ==
    ScoredSameDimension =>
        /\ scored[1].score.kind = "Num"
        /\ scored[1].score.val > 0
        /\ scored[1].score.val <= Scale

\* C9, as stated: with buffer_size <= 1 no call returns a report and
\* total_anomalies stays 0, whatever the threshold.
DegenerateNeverFlags ==
    config.buffer_size <= 1 =>
        /\ returned = None
        /\ report_log = <<>>
        /\ total_anomalies = 0

\* C9, amended: with buffer_size <= 1 every score is the neutral 0.5, so with
\* a threshold above 0.5 no call returns a report and total_anomalies stays 0.
DegenerateNeverFlagsAboveNeutral ==
    config.buffer_size <= 1 =>
        /\ last_score # None => last_score[1] = Num(HalfScale)
        /\ config.threshold > HalfScale =>
              /\ returned = None
              /\ report_log = <<>>
              /\ total_anomalies = 0

DegenerateScored ==
    /\ config.buffer_size <= 1
    /\ config.threshold > HalfScale
    /\ config.n_trees >= 1
    /\ last_score # None
    /\ Len(history) >= 3

\* C10: scoring a point of another dimension than the training vectors ends
\* in a DimensionMismatch error: no index panic, no score.
DimensionMismatchFailsFast ==
    ScoredOtherDimension => scored[1].score.kind = "DimensionMismatch"

\* C11: a forest whose stored sample_size is 0 or 1 scores every point, of any
\* length, exactly 0.5: no panic, no NaN, also with no tree at all.
DegenerateForestScoresNeutral ==
    (scored # None /\ fit_forest[1].sample_size <= 1) =>
        scored[1].score = Num(HalfScale)

DegenerateForestScored ==
    /\ scored # None
    /\ fit_forest[1].sample_size = 1
    /\ fit_input[1].sample_size >= 2
    /\ Len(fit_forest[1].trees) = 2

\* A forest of at least one tree was fitted on a cluster of at least two
\* vectors with sample_size >= 2, and the point scored last is Far in every
\* dimension of the cluster.
OutlierScored ==
    /\ scored # None
    /\ fit_input[1].n_trees >= 1
    /\ fit_input[1].sample_size >= 2
    /\ Len(fit_input[1].data) >= 2
    /\ Len(scored[1].point) = Len(fit_input[1].data[1])
    /\ \A d \in 1 .. Len(scored[1].point) : scored[1].point[d] = Far

ClusterMembers == { fit_input[1].data[i] : i \in 1 .. Len(fit_input[1].data) }

\* E[h(x)] over the trees of the fitted forest.
MeanPath(point) ==
    SumPaths(fit_forest[1].trees, point, 1) \div Len(fit_forest[1].trees)

CZeroThenIncreasing ==
    /\ \A i \in 1 .. Len(c_table) :
          /\ i - 1 <= 1 => c_table[i] = 0
          /\ (i - 1 >= 1 /\ i < Len(c_table)) => c_table[i] < c_table[i + 1]
    /\ Len(c_table) > 256 =>
          /\ c_table[257] > c_table[3]
          /\ c_table[3] > c_table[2]
          /\ c_table[2] = 0

CComputedTo256 ==
    /\ Len(c_table) > 256
    /\ c_table[257] > 10 * Scale

\* The event denoted by eight fields.
EventOf(fields) == NetworkEvent([k \in 1 .. 8 |-> fields[k].value])

\* C14: parse_line returns None, without a panic, for a line that is empty or
\* whitespace only, that starts with '#' after trimming, or that has fewer
\* than eight fields; for a line of eight well-formed fields it returns the
\* event whose fields are the values of the fields in the order timestamp,
\* src_ip, src_port, dst_ip, dst_port, protocol, bytes, duration.
ParseLineNoneOrEvent ==
    parsed # None =>
        LET input == parsed[1].input
            result == parsed[1].result
        IN /\ ~result.panic
           /\ (input.comment # <<>> \/ Len(input.fields) < 8)
                => result.event = None
           /\ (/\ input.comment = <<>>
               /\ Len(input.fields) = 8
               /\ \A k \in 1 .. 8 : input.fields[k].ok)
                => result.event = Some(EventOf(input.fields))

ParsedEightFields ==
    /\ parsed # None
    /\ parsed[1].result.event # None
    /\ parsed[1].result.event[1].dst_port = 53
    /\ parsed[1].result.event[1].protocol = "Tcp"
    /\ parsed[1].input.lead # <<>>

\* The feature vector of the event of the last process call.
LastFeatures == ExtractFeatures(history[Len(history)])

\* C15: a process call made in the Detecting state scores its observation
\* with the forest held before the call, also when the call retrains: that
\* score is the one compared with the threshold and placed in the report, and
\* the forest built by the call serves from the next call on.
ScoredWithForestBeforeCall ==
    [][ (forest # None /\ history' # history) =>
          LET score == Score(forest[1], ExtractFeatures(history'[Len(history')]))
          IN /\ last_score' = Some(score)
             /\ returned' # None <=> score.val >= config.threshold
             /\ returned' # None => returned'[1].score = score ]_vars

\* The last call retrained, and the forest it built would have scored its
\* observation otherwise than the call did.
RetrainChangedScore ==
    /\ Len(train_log) >= 2
    /\ train_log[Len(train_log)] = Len(history)
    /\ last_score # None
    /\ last_score[1] # Score(forest[1], LastFeatures)
    /\ returned # None

\* The last process call retrained a forest that was already trained.
LastCallRetrained ==
    /\ Len(train_log) >= 2
    /\ train_log[Len(train_log)] = Len(history)

\* C16, as stated: every retrain is fitted on the buffer the call leaves
\* behind, whose newest vector is the one of the triggering observation and
\* which holds between buffer_size and 2 * buffer_size vectors.
RetrainOnBufferWithObservation ==
    LastCallRetrained =>
        /\ trained_on = Some(buffer)
        /\ buffer # <<>>
        /\ buffer[Len(buffer)] = LastFeatures
        /\ Len(buffer) >= config.buffer_size
        /\ Len(buffer) <= 2 * config.buffer_size

\* C16, amended: every retrain is fitted on the buffer the call leaves
\* behind, after the push and the eviction; with buffer_size >= 1 its newest
\* vector is the one of the triggering observation and it holds between
\* buffer_size and 2 * buffer_size vectors, with buffer_size = 0 it is empty.
RetrainOnBufferAfterEviction ==
    LastCallRetrained =>
        /\ trained_on = Some(buffer)
        /\ forest[1] \in Train(buffer)
        /\ config.buffer_size >= 1 =>
              /\ buffer[Len(buffer)] = LastFeatures
              /\ Len(buffer) >= config.buffer_size
              /\ Len(buffer) <= 2 * config.buffer_size
        /\ config.buffer_size = 0 => buffer = <<>>

RetrainedAfterEviction ==
    /\ LastCallRetrained
    /\ config.buffer_size >= 1
    /\ Len(history) > 2 * config.buffer_size
    /\ Len(buffer) = config.buffer_size

\* C17: the buffer is the last Len(buffer) feature vectors of the events
\* processed so far, in arrival order.
BufferIsSuffixOfHistory ==
    /\ Len(buffer) <= Len(history)
    /\ \A i \in 1 .. Len(buffer) :
          buffer[i] = ExtractFeatures(history[Len(history) - Len(buffer) + i])

BufferSlidPastOldest ==
    /\ config.buffer_size = 2
    /\ Len(history) = 2 * config.buffer_size + 1
    /\ Len(buffer) = config.buffer_size
    /\ buffer[1] # buffer[2]
    /\ ExtractFeatures(history[1]) # buffer[1]

\* The sum of the sizes of the leaves of a tree.
RECURSIVE LeafSum(_)
LeafSum(node) ==
    IF node.leaf THEN node.size ELSE LeafSum(node.left) + LeafSum(node.right)

\* C18: fit returns n_trees trees, stores min(sample_size, |data|) as the
\* forest's sample_size, and the leaf sizes of each tree sum to that number.
FitCountsEverySample ==
    fit_forest # None =>
        LET f == fit_forest[1]
            input == fit_input[1]
        IN /\ Len(f.trees) = input.n_trees
           /\ f.sample_size = Min(input.sample_size, Len(input.data))
           /\ \A i \in 1 .. Len(f.trees) : LeafSum(f.trees[i]) = f.sample_size

FittedOnFewerThanRequested ==
    /\ fit_forest # None
    /\ fit_input[1].n_trees = 2
    /\ Len(fit_input[1].data) < fit_input[1].sample_size
    /\ ~fit_forest[1].trees[1].leaf
    /\ fit_forest[1].trees[2].leaf

\* The number of Branch steps from a node to its deepest Leaf.
RECURSIVE Height(_)
Height(node) ==
    IF node.leaf THEN 0 ELSE 1 + Max(Height(node.left), Height(node.right))

\* The Leaf a point of the training dimension comes to, and the number of
\* Branches on the way.
RECURSIVE Descent(_, _, _)
Descent(node, point, steps) ==
    IF node.leaf THEN [steps |-> steps, size |-> node.size]
    ELSE IF point[node.feature] < node.threshold
         THEN Descent(node.left, point, steps + 1)
         ELSE Descent(node.right, point, steps + 1)

\* ceil(log2(s)): the least k with 2^k >= s.
DepthLimit(s) == CHOOSE k \in 0 .. s : 2 ^ k >= s /\ \A j \in 0 .. k - 1 : 2 ^ j < s

\* C19: no Leaf of a tree lies more than ceil(log2(s)) Branches below the
\* root, s the requested sample_size, also when the data are fewer than s; the
\* path length of a point of the training dimension is the number of Branches
\* it passes, at most ceil(log2(s)), plus c of the size of the Leaf it reaches.
LeavesWithinDepthLimit ==
    fit_forest # None =>
        \A i \in 1 .. Len(fit_forest[1].trees) :
            LET tree == fit_forest[1].trees[i]
            IN /\ Height(tree) <= DepthLimit(fit_input[1].sample_size)
               /\ ScoredSameDimension =>
                     LET reached == Descent(tree, scored[1].point, 0)
                     IN /\ reached.steps <= DepthLimit(fit_input[1].sample_size)
                        /\ PathLength(tree, scored[1].point, 0) =
                              PathOk(reached.steps * Scale + C(reached.size))

\* A tree on the chain is as deep as the limit ceil(log2(4)) = 2 allows, and
\* the point scored passes two Branches to a Leaf that counts two samples.
ScoredAtDepthLimit ==
    /\ ScoredSameDimension
    /\ fit_input[1].data = ChainData
    /\ fit_input[1].sample_size = 4
    /\ Height(fit_forest[1].trees[1]) = DepthLimit(4)
    /\ Descent(fit_forest[1].trees[1], scored[1].point, 0) = [steps |-> 2, size |-> 2]

\* The arguments, draws and result of the last build_node call; the data
\* below the threshold drawn and the others.
Built == built[1]
BuiltBelow ==
    SelectSeq(Built.data, LAMBDA p : p[Built.feature[1]] < Built.threshold[1])
BuiltOthers ==
    SelectSeq(Built.data, LAMBDA p : p[Built.feature[1]] >= Built.threshold[1])

\* Every vector of the data has the same value of the feature drawn.
BuiltFeatureConstant ==
    \A i, j \in 1 .. Len(Built.data) :
        Built.data[i][Built.feature[1]] = Built.data[j][Built.feature[1]]

\* The values of the feature drawn span less than EPSILON.
BuiltFeatureWithinEpsilon ==
    \A i, j \in 1 .. Len(Built.data) :
        Built.data[i][Built.feature[1]] - Built.data[j][Built.feature[1]] < EPSILON

\* The depth limit is reached, the data are at most one vector, or the
\* threshold drawn leaves one side empty.
BuiltStopsWithoutSplit ==
    \/ Built.depth >= Built.max_depth
    \/ Len(Built.data) <= 1
    \/ Built.threshold # None /\ (BuiltBelow = <<>> \/ BuiltOthers = <<>>)

\* The node returned is a Branch on the feature and threshold drawn, whose
\* subtrees are built at depth + 1 from the two sides, both non-empty.
BuiltBranchOfPartition ==
    /\ Built.node.feature = Built.feature[1]
    /\ Built.node.threshold = Built.threshold[1]
    /\ BuiltBelow # <<>> /\ BuiltOthers # <<>>
    /\ Built.node.left \in BuildNode(BuiltBelow, Built.depth + 1, Built.max_depth)
    /\ Built.node.right \in BuildNode(BuiltOthers, Built.depth + 1, Built.max_depth)

\* C20, as stated: build_node returns a Leaf exactly when depth >= max_depth,
\* or the data are at most one vector, or the feature drawn has equal minimum
\* and maximum over the data, or the threshold drawn leaves one side empty,
\* and the Leaf counts the data; otherwise it returns a Branch on the feature
\* and threshold drawn, whose subtrees are built at depth + 1 from the vectors
\* below the threshold and from the others, both non-empty.
BuildNodeLeafOrBranch ==
    built # None =>
        /\ Built.node.leaf <=>
              (BuiltStopsWithoutSplit
                 \/ (Built.feature # None /\ BuiltFeatureConstant))
        /\ Built.node.leaf => Built.node.size = Len(Built.data)
        /\ ~Built.node.leaf => BuiltBranchOfPartition

\* C20, amended: as stated, with the third case being that the values of the
\* feature drawn span less than f64::EPSILON, equal or not.
BuildNodeLeafWithinEpsilon ==
    built # None =>
        /\ Built.node.leaf <=>
              (BuiltStopsWithoutSplit
                 \/ (Built.feature # None /\ BuiltFeatureWithinEpsilon))
        /\ Built.node.leaf => Built.node.size = Len(Built.data)
        /\ ~Built.node.leaf => BuiltBranchOfPartition

\* build_node drew a feature whose two values are distinct and closer than
\* EPSILON, drew no threshold and returned a Leaf of both vectors.
LeafOnNearValues ==
    /\ built # None
    /\ Built.data = NearData
    /\ Built.depth < Built.max_depth
    /\ Built.feature # None
    /\ Built.threshold = None
    /\ Built.node = Leaf(2)

\* The values of the feature drawn over the data of the last build_node call.
BuiltValues ==
    { Built.data[i][Built.feature[1]] : i \in 1 .. Len(Built.data) }
BuiltMin == CHOOSE v \in BuiltValues : \A w \in BuiltValues : v <= w
BuiltMax == CHOOSE v \in BuiltValues : \A w \in BuiltValues : v >= w

\* C21, as stated: a threshold drawn by build_node lies strictly between the
\* minimum and the maximum of the feature over the data.
ThresholdInOpenInterval ==
    (built # None /\ Built.threshold # None) =>
        /\ BuiltMin < Built.threshold[1]
        /\ Built.threshold[1] < BuiltMax

\* C21, amended: a threshold drawn lies in [min, max): it is never the
\* maximum; when it is the minimum no vector is below it and build_node
\* returns a Leaf, so the threshold of every Branch lies strictly between
\* minimum and maximum.
ThresholdInHalfOpenInterval ==
    (built # None /\ Built.threshold # None) =>
        /\ BuiltMin <= Built.threshold[1]
        /\ Built.threshold[1] < BuiltMax
        /\ Built.threshold[1] = BuiltMin => Built.node = Leaf(Len(Built.data))
        /\ ~Built.node.leaf =>
              /\ BuiltMin < Built.node.threshold
              /\ Built.node.threshold < BuiltMax

\* The threshold drawn is the minimum of the feature and the call, made above
\* the depth limit on several vectors, returned a Leaf.
ThresholdAtMinimum ==
    /\ built # None
    /\ Built.threshold # None
    /\ Built.threshold[1] = BuiltMin
    /\ Built.depth < Built.max_depth
    /\ Built.data = ChainData
    /\ Built.node.leaf

\* C22: the forest changes only in a process call that runs train(), which
\* a call does at most once; a call that does not train leaves the forest as
\* it was, and a trained detector stays trained.
ForestChangesOnlyInTrain ==
    /\ [](\A i \in 1 .. Len(train_log) :
            /\ train_log[i] <= Len(history)
            /\ i > 1 => train_log[i] > train_log[i - 1])
    /\ [](IsTrained <=> train_log # <<>>)
    /\ [][ /\ train_log' = train_log => forest' = forest
           /\ train_log' # train_log =>
                 /\ train_log' = Append(train_log, Len(history'))
                 /\ forest' # None
                 /\ trained_on' = Some(buffer')
           /\ IsTrained => forest' # None ]_vars

\* The detector was trained, later calls changed the buffer without training,
\* and the forest kept is one the buffer of now could not produce.
ForestKeptWhileBufferMoved ==
    /\ IsTrained
    /\ train_log[Len(train_log)] < Len(history)
    /\ forest[1] \notin Train(buffer)

\* C23: after any sequence of add_turn calls the history holds at most 10
\* turns, the most recently added ones in the order they were added, and
\* last_intent is the intent of the turn added last.
HistoryIsLastTenAdded ==
    LET n == Len(added)
        kept == Min(n, 10)
    IN /\ Len(context.conversation_history) <= 10
       /\ context.conversation_history = SubSeq(added, n - kept + 1, n)
       /\ context.last_intent = IF n = 0 THEN None ELSE Some(added[n].intent)

\* Eleven turns were added: the first one is gone, the other ten are kept.
HistoryDroppedOldest ==
    /\ Len(added) = 11
    /\ Len(context.conversation_history) = 10
    /\ context.conversation_history[1] = added[2]
    /\ context.conversation_history[10] = added[11]
    /\ added[1].intent # added[11].intent

\* The training data of the last direct fit call: at least one vector, of
\* dimension >= 1, and every vector equal to the first.
FittedOnIdenticalVectors ==
    /\ fit_forest # None
    /\ fit_input[1].data # <<>>
    /\ Len(fit_input[1].data[1]) >= 1
    /\ \A i \in 1 .. Len(fit_input[1].data) :
          fit_input[1].data[i] = fit_input[1].data[1]
    /\ fit_input[1].n_trees >= 1

\* C24: a forest fitted on identical vectors has only single-Leaf trees and
\* scores every point, of any length and however far away, exactly 0.5.
IdenticalDataScoresNeutral ==
    FittedOnIdenticalVectors =>
        /\ \A i \in 1 .. Len(fit_forest[1].trees) :
              /\ fit_forest[1].trees[i].leaf
              /\ fit_forest[1].trees[i].size = fit_forest[1].sample_size
        /\ scored # None => scored[1].score = Num(HalfScale)

\* Two trees on two identical vectors, both sampled, so c(sample_size) is not
\* 0, and the far point scored.
FarPointScoredOnIdenticalData ==
    /\ FittedOnIdenticalVectors
    /\ fit_forest[1].sample_size = 2
    /\ Len(fit_forest[1].trees) = 2
    /\ C(fit_forest[1].sample_size) > 0
    /\ scored # None
    /\ scored[1].point = <<Far>>
    /\ scored[1].score = Num(HalfScale)

\* C25: a forest the detector holds has sample_size = buffer_size, because
\* the buffer it was trained on held at least buffer_size vectors.
ForestSampleSizeIsBufferSize ==
    IsTrained =>
        /\ forest[1].sample_size = config.buffer_size
        /\ trained_on # None
        /\ Len(trained_on[1]) >= config.buffer_size
        /\ Min(config.buffer_size, Len(trained_on[1])) = config.buffer_size

\* A retrain on a buffer longer than buffer_size.
RetrainedOnLongerBuffer ==
    /\ IsTrained
    /\ Len(train_log) >= 2
    /\ config.buffer_size >= 1
    /\ Len(trained_on[1]) > config.buffer_size
    /\ forest[1].sample_size = config.buffer_size

\* Where the construction of a tree put a vector p of its data: at each
\* Branch the data are partitioned as build_node partitioned them and p is
\* followed into its part.  The result is the number of Branches passed, the
\* size the Leaf stored and the number of data vectors that came to that Leaf.
RECURSIVE Placed(_, _, _, _)
Placed(node, data, p, steps) ==
    IF node.leaf
    THEN [steps |-> steps, size |-> node.size, count |-> Len(data)]
    ELSE LET left_data == LeftPart(data, node.feature, node.threshold)
             right_data == RightPart(data, node.feature, node.threshold)
         IN IF \E i \in 1 .. Len(left_data) : left_data[i] = p
            THEN Placed(node.left, left_data, p, steps + 1)
            ELSE Placed(node.right, right_data, p, steps + 1)

\* C26: for every vector p of the data a tree was built from, path_length
\* passes the Branches that placed p and ends at the Leaf that counted p: the
\* Leaf's size is the number of vectors placed there, p among them.
TraversalAgreesWithConstruction ==
    built # None =>
        \A i \in 1 .. Len(Built.data) :
            LET p == Built.data[i]
                placed == Placed(Built.node, Built.data, p, 0)
            IN /\ placed.size = placed.count
               /\ placed.size >= 1
               /\ Descent(Built.node, p, 0) =
                     [steps |-> placed.steps, size |-> placed.size]
               /\ PathLength(Built.node, p, 0) =
                     PathOk(placed.steps * Scale + C(placed.size))

\* A tree two Branches high over the chain, split at 2 at the root: the
\* vector equal to the threshold was placed right and is found there.
ThresholdPointFoundRight ==
    /\ built # None
    /\ Built.data = ChainData
    /\ Height(Built.node) = 2
    /\ ~Built.node.leaf
    /\ Built.node.threshold = 2
    /\ Placed(Built.node, Built.data, <<2>>, 0).steps = 2
    /\ PathLength(Built.node, <<2>>, 0) # PathLength(Built.node, <<0>>, 0)

\* The session a manager holds under an id, None when it holds none.
SessionOf(m, session_id) == m.sessions[session_id]

\* C27: record_turn for a session id the manager does not hold changes
\* nothing: no session is created and every session stays as it was.  For an
\* id it holds, that session gets exactly one turn more, at the end of its
\* history (the oldest one leaves when there were 10), its last_intent is the
\* turn's intent, its other fields stay, and every other session stays as it
\* was.
RecordTurnTouchesOnlyItsSession ==
    [][ (last_call' # None /\ last_call'[1].op = "record_turn") =>
          LET session_id == last_call'[1].session_id
              message == last_call'[1].message[1]
              before == SessionOf(manager, session_id)
              after == SessionOf(manager', session_id)
          IN /\ \A other \in SessionIds \ {session_id} :
                    SessionOf(manager', other) = SessionOf(manager, other)
             /\ before = None => manager' = manager
             /\ before # None =>
                   /\ after # None
                   /\ LET old == before[1].conversation_history
                          new == after[1].conversation_history
                          kept == IF Len(old) >= 10 THEN Tail(old) ELSE old
                      IN /\ Len(new) = Len(kept) + 1
                         /\ SubSeq(new, 1, Len(kept)) = kept
                         /\ new[Len(new)].user_input = message.user_input
                         /\ new[Len(new)].bot_response = message.bot_response
                         /\ after[1].last_intent = Some(new[Len(new)].intent)
                   /\ after[1].session_id = before[1].session_id
                   /\ after[1].user_name = before[1].user_name
                   /\ after[1].context_data = before[1].context_data
                   /\ after[1].started_at = before[1].started_at ]_vars

\* The sixth call was a record_turn for an id the manager does not hold: it
\* still holds no such session, and the session it holds has the one turn
\* recorded for it earlier and its context data.
RecordTurnOnUnknownSession ==
    /\ last_call # None
    /\ last_call[1].op = "record_turn"
    /\ last_call[1].session_id = "other"
    /\ SessionOf(manager, "other") = None
    /\ now = 6
    /\ SessionOf(manager, "main-session") # None
    /\ Len(SessionOf(manager, "main-session")[1].conversation_history) = 1
    /\ SessionOf(manager, "main-session")[1].context_data["user_name"] # None

====
